---------------------------- MODULE Spec2Model ----------------------------
(***************************************************************************)
(* go-next-todo backend: REST handlers -> services -> repositories -> SQL. *)
(* The database tables are the state; every handler is one action.  Time   *)
(* is a clock of whole hours (DATETIME columns and the token lifetimes are *)
(* compared against it).                                                   *)
(***************************************************************************)
EXTENDS Integers, FiniteSets, Sequences, TLC

\* ------------------------------------------------------------------ bounds
MaxTime == 2          \* the clock runs 0..MaxTime
MaxTodos == 1         \* rows ever inserted into todos
MaxUsers == 3         \* rows ever inserted into users
MaxResetTokens == 2   \* rows ever inserted into password_reset_tokens
MaxListTodos == 3     \* rows of a todos table that is listed

\* ------------------------------------------------------- program constants
ResetTokenTTL == 1    \* time.Now().Add(1 * time.Hour)
SessionTTL == 24      \* time.Now().Add(time.Hour * 24)

StatusOK == 200
StatusCreated == 201
StatusNoContent == 204
StatusBadRequest == 400
StatusUnauthorized == 401
StatusForbidden == 403
StatusNotFound == 404
StatusConflict == 409
StatusInternalServerError == 500

\* ------------------------------------------------------------ input values
Titles == {"", "buy milk", "walk dog"}
Emails == {"normal_user@example.com", "admin@example.com", "nobody@example.com"}
Usernames == {"normal_user", "new_user", "bob"}
Passwords == {"password123", "adminpass"}
Salts == {0, 1}
JWTSecret == "JWT_SECRET"

NULL == 0 - 1         \* SQL NULL in a DATETIME column
Nil == "nil"          \* the nil error

ErrTodoNotFound == "todo not found"
ErrTodoForbidden == "access denied"
ErrDuplicateEmail == "duplicate email"
ErrUserNotFound == "user not found"
ErrResetTokenNotFound == "reset token not found"

VARIABLES
    now,          \* the clock, in hours
    users,        \* table users: id -> row
    todos,        \* table todos: id -> row
    nextTodoID,   \* AUTO_INCREMENT of todos
    resetTokens,  \* table password_reset_tokens: id -> row
    session,      \* the jwt_token cookie of the browser, NoToken if none
    resp,         \* the last request and its response
    procs         \* requests served step by step: slot -> request in flight

vars == <<now, users, todos, nextTodoID, resetTokens, session, resp, procs>>

\* ------------------------------------------------------------------ todos
\* A row of todos.  created_at is left out: the INSERT sets it, and nothing
\* reads it but the ORDER BY of FindAll, whose result is taken as a set here.
NoTodo == [id |-> 0, user_id |-> 0, title |-> "", completed |-> FALSE,
           updated_at |-> NULL]

\* models.Todo as bound from a JSON body: id and timestamps are zero values
BodyTodo(uid, title, completed) ==
    [id |-> 0, user_id |-> uid, title |-> title, completed |-> completed,
     updated_at |-> NULL]

FindByID(tds, id) ==
    IF id \in DOMAIN tds
    THEN [err |-> Nil, todo |-> tds[id]]
    ELSE [err |-> ErrTodoNotFound, todo |-> NoTodo]

\* INSERT INTO todos (user_id, title, completed); the id is the table's
\* AUTO_INCREMENT, updated_at defaults to CURRENT_TIMESTAMP.
RepoCreate_IgnoresCompleted(tds, nid, t, clock) ==
    LET row == [id |-> nid, user_id |-> t.user_id, title |-> t.title,
                completed |-> FALSE, updated_at |-> clock]
        tds2 == (nid :> row) @@ tds
    IN  [todos |-> tds2, err |-> Nil, todo |-> FindByID(tds2, nid).todo]

RepoCreate(tds, nid, t, clock) ==
    LET row == [id |-> nid, user_id |-> t.user_id, title |-> t.title,
                completed |-> t.completed, updated_at |-> clock]
        tds2 == (nid :> row) @@ tds
    IN  [todos |-> tds2, err |-> Nil, todo |-> FindByID(tds2, nid).todo]

FindAll(tds) == {tds[i] : i \in DOMAIN tds}

FindByUserID(tds, userID) == {tds[i] : i \in {j \in DOMAIN tds : tds[j].user_id = userID}}

\* The number of rows the UPDATE changed: MySQL counts a matched row only when
\* one of its columns gets a new value (the DSN does not set clientFoundRows).
\* updated_at is a DATETIME of whole seconds; sameSecond tells whether
\* CURRENT_TIMESTAMP is still the second the row was last written in, which
\* it can be only within the same hour of the clock.
UpdateRowsAffected(tds, id, t, clock, sameSecond) ==
    IF id \notin DOMAIN tds THEN 0
    ELSE IF tds[id].title = t.title /\ tds[id].completed = t.completed
            /\ tds[id].updated_at = clock /\ sameSecond THEN 0
    ELSE 1

\* A variant of the statement that also SETs user_id = ? from the body
RepoUpdate_SetsUserID(tds, id, t, clock, sameSecond) ==
    LET tds2 == IF id \in DOMAIN tds
                THEN [tds EXCEPT ![id].user_id = t.user_id,
                                 ![id].title = t.title,
                                 ![id].completed = t.completed,
                                 ![id].updated_at = clock]
                ELSE tds
    IN  IF UpdateRowsAffected(tds, id, t, clock, sameSecond) = 0
           /\ (id \notin DOMAIN tds \/ tds[id].user_id = t.user_id)
        THEN [todos |-> tds2, err |-> ErrTodoNotFound, todo |-> NoTodo]
        ELSE [todos |-> tds2, err |-> Nil, todo |-> FindByID(tds2, id).todo]

\* UPDATE todos SET title = ?, completed = ?, updated_at = CURRENT_TIMESTAMP
\* WHERE id = ?
RepoUpdate(tds, id, t, clock, sameSecond) ==
    LET tds2 == IF id \in DOMAIN tds
                THEN [tds EXCEPT ![id].title = t.title,
                                 ![id].completed = t.completed,
                                 ![id].updated_at = clock]
                ELSE tds
    IN  IF UpdateRowsAffected(tds, id, t, clock, sameSecond) = 0
        THEN [todos |-> tds2, err |-> ErrTodoNotFound, todo |-> NoTodo]
        ELSE [todos |-> tds2, err |-> Nil, todo |-> FindByID(tds2, id).todo]

\* DELETE FROM todos WHERE id = ?
\* A variant that reports the delete as done and leaves the row
RepoDelete_KeepsRow(tds, id) ==
    IF id \in DOMAIN tds
    THEN [todos |-> tds, err |-> Nil]
    ELSE [todos |-> tds, err |-> ErrTodoNotFound]

\* A variant that does not look at the rows affected
RepoDelete_IgnoresRowsAffected(tds, id) ==
    [todos |-> [i \in DOMAIN tds \ {id} |-> tds[i]], err |-> Nil]

RepoDelete(tds, id) ==
    IF id \in DOMAIN tds
    THEN [todos |-> [i \in DOMAIN tds \ {id} |-> tds[i]], err |-> Nil]
    ELSE [todos |-> tds, err |-> ErrTodoNotFound]

\* ------------------------------------------------------------------ users
NoHash == <<"", 0, "">>   \* the empty PasswordHash of a response
NoUser == [id |-> 0, username |-> "", email |-> "", password_hash |-> NoHash,
           role |-> "", updated_at |-> NULL]

\* bcrypt.GenerateFromPassword: the hash holds the salt it was made with
HashPassword(password, salt) == <<"bcrypt", salt, password>>

\* bcrypt.CompareHashAndPassword: rehash the password with the hash's salt
VerifyPassword(hashedPassword, password) ==
    IF hashedPassword = HashPassword(password, hashedPassword[2])
    THEN Nil ELSE "hashedPassword is not the hash of the given password"

\* A variant for a table whose email column is not UNIQUE
UserCreate_UniqueUsernameOnly(us, u) ==
    IF \E i \in DOMAIN us : us[i].username = u.username
    THEN [users |-> us, err |-> ErrDuplicateEmail, user |-> NoUser]
    ELSE LET nid == Cardinality(DOMAIN us) + 1
             row == [u EXCEPT !.id = nid]
         IN  [users |-> (nid :> row) @@ us, err |-> Nil, user |-> row]

\* INSERT INTO users; username and email are UNIQUE columns, and MySQL's
\* error 1062 for either is returned as ErrDuplicateEmail
UserCreate(us, u) ==
    IF \E i \in DOMAIN us : us[i].email = u.email \/ us[i].username = u.username
    THEN [users |-> us, err |-> ErrDuplicateEmail, user |-> NoUser]
    ELSE LET nid == Cardinality(DOMAIN us) + 1
             row == [u EXCEPT !.id = nid]
         IN  [users |-> (nid :> row) @@ us, err |-> Nil, user |-> row]

FindByEmail(us, email) ==
    IF \E i \in DOMAIN us : us[i].email = email
    THEN [err |-> Nil, user |-> us[CHOOSE i \in DOMAIN us : us[i].email = email]]
    ELSE [err |-> ErrUserNotFound, user |-> NoUser]

\* UserService.RegisterUser: the role is always "user"
RegisterUser(us, username, email, password, salt, clock) ==
    LET newUser == [id |-> 0, username |-> username, email |-> email,
                    password_hash |-> HashPassword(password, salt),
                    role |-> "user", updated_at |-> clock]
        c == UserCreate(us, newUser)
    IN  IF c.err # Nil THEN c
        ELSE [c EXCEPT !.user.password_hash = NoHash]

\* A variant that does not verify the password
AuthenticateUser_NoVerify(us, email, password) ==
    LET f == FindByEmail(us, email)
    IN  IF f.err # Nil THEN f
        ELSE [err |-> Nil, user |-> [f.user EXCEPT !.password_hash = NoHash]]

\* UserService.AuthenticateUser
AuthenticateUser(us, email, password) ==
    LET f == FindByEmail(us, email)
    IN  IF f.err # Nil THEN f
        ELSE IF VerifyPassword(f.user.password_hash, password) # Nil
             THEN [err |-> "invalid credentials", user |-> NoUser]
        ELSE [err |-> Nil, user |-> [f.user EXCEPT !.password_hash = NoHash]]

\* UPDATE users SET password_hash = ?, updated_at = CURRENT_TIMESTAMP WHERE
\* id = ?: the rows the statement changed
UpdatePasswordRowsAffected(us, userID, newHash, clock) ==
    IF userID \notin DOMAIN us THEN 0
    ELSE IF us[userID].password_hash = newHash /\ us[userID].updated_at = clock THEN 0
    ELSE 1

\* A variant whose UPDATE has no WHERE clause
UpdatePassword_AllRows(us, userID, newHash, clock) ==
    [users |-> [i \in DOMAIN us |->
                   [us[i] EXCEPT !.password_hash = newHash, !.updated_at = clock]],
     err |-> Nil]

\* A variant that writes the row and then reports that it wrote none
UpdatePassword_ErrAfterWrite(us, userID, newHash, clock) ==
    [users |-> IF userID \in DOMAIN us
               THEN [us EXCEPT ![userID].password_hash = newHash,
                               ![userID].updated_at = clock]
               ELSE us,
     err |-> "no rows affected"]

\* UserRepository.UpdatePassword
UpdatePassword(us, userID, newHash, clock) ==
    LET us2 == IF userID \in DOMAIN us
               THEN [us EXCEPT ![userID].password_hash = newHash,
                               ![userID].updated_at = clock]
               ELSE us
    IN  IF UpdatePasswordRowsAffected(us, userID, newHash, clock) = 0
        THEN [users |-> us2, err |-> "no rows affected"]
        ELSE [users |-> us2, err |-> Nil]

\* ------------------------------------------------------------ reset tokens
NoResetToken == [id |-> 0, user_id |-> 0, token |-> <<"hex", 0>>,
                 expires_at |-> NULL, used_at |-> NULL]

\* generateResetToken: 32 random bytes in hex; the n-th value drawn, never
\* one drawn before
generateResetToken(n) == <<"hex", n>>

\* The token strings a reset request may carry: the ones that can be issued
\* and one that never is
ResetTokenStrings == {generateResetToken(n) : n \in 1..(MaxResetTokens + 1)}

\* A variant that expires the user's earlier tokens when it stores a new one
Save_InvalidatesOlder(rts, t) ==
    LET nid == Cardinality(DOMAIN rts) + 1
        old == [i \in DOMAIN rts |->
                   IF rts[i].user_id = t.user_id
                   THEN [rts[i] EXCEPT !.expires_at = NULL]
                   ELSE rts[i]]
    IN  (nid :> [t EXCEPT !.id = nid, !.used_at = NULL]) @@ old

\* MySQLResetTokenRepo.Save: INSERT INTO password_reset_tokens (user_id,
\* token, expires_at); used_at stays NULL
Save(rts, t) ==
    LET nid == Cardinality(DOMAIN rts) + 1
    IN  (nid :> [t EXCEPT !.id = nid, !.used_at = NULL]) @@ rts

\* MySQLResetTokenRepo.FindByToken
FindByToken(rts, token) ==
    IF \E i \in DOMAIN rts : rts[i].token = token
    THEN [err |-> Nil, row |-> rts[CHOOSE i \in DOMAIN rts : rts[i].token = token]]
    ELSE [err |-> ErrResetTokenNotFound, row |-> NoResetToken]

\* A variant whose UPDATE matches no row
MarkUsed_Never(rts, id, clock) == rts

\* MySQLResetTokenRepo.MarkUsed: UPDATE ... SET used_at = NOW() WHERE id = ?
MarkUsed(rts, id, clock) ==
    IF id \in DOMAIN rts THEN [rts EXCEPT ![id].used_at = clock] ELSE rts

\* A variant that returns the repository's error for an unknown email
ForgotPasswordUser_ReportsUnknown(us, rts, email, clock) ==
    LET f == FindByEmail(us, email)
        resetToken == [id |-> 0, user_id |-> f.user.id,
                       token |-> generateResetToken(Cardinality(DOMAIN rts) + 1),
                       expires_at |-> clock + ResetTokenTTL, used_at |-> NULL]
    IN  IF f.err # Nil THEN [resetTokens |-> rts, err |-> f.err]
        ELSE [resetTokens |-> Save(rts, resetToken), err |-> Nil]

\* UserService.ForgotPasswordUser: nil for an unknown email; else a token is
\* stored for one hour and mailed (a failure to send is logged only)
ForgotPasswordUser(us, rts, email, clock) ==
    LET f == FindByEmail(us, email)
        resetToken == [id |-> 0, user_id |-> f.user.id,
                       token |-> generateResetToken(Cardinality(DOMAIN rts) + 1),
                       expires_at |-> clock + ResetTokenTTL, used_at |-> NULL]
    IN  IF f.err # Nil THEN [resetTokens |-> rts, err |-> Nil]
        ELSE [resetTokens |-> Save(rts, resetToken), err |-> Nil]

\* A variant without the check of expires_at
ResetPasswordUser_NoExpiry(us, rts, token, newPassword, salt, clock) ==
    LET f == FindByToken(rts, token)
        hashedPassword == HashPassword(newPassword, salt)
        u == UpdatePassword(us, f.row.user_id, hashedPassword, clock)
    IN  IF f.err # Nil
        THEN [users |-> us, resetTokens |-> rts, err |-> "invalid or expired token"]
        ELSE IF f.row.used_at # NULL
        THEN [users |-> us, resetTokens |-> rts, err |-> "token already used"]
        ELSE IF u.err # Nil
        THEN [users |-> u.users, resetTokens |-> rts,
              err |-> "failed to update password: no rows affected"]
        ELSE [users |-> u.users, resetTokens |-> MarkUsed(rts, f.row.id, clock),
              err |-> Nil]

\* A variant that looks at used_at before expires_at
ResetPasswordUser_UsedFirst(us, rts, token, newPassword, salt, clock) ==
    LET f == FindByToken(rts, token)
        hashedPassword == HashPassword(newPassword, salt)
        u == UpdatePassword(us, f.row.user_id, hashedPassword, clock)
    IN  IF f.err # Nil
        THEN [users |-> us, resetTokens |-> rts, err |-> "invalid or expired token"]
        ELSE IF f.row.used_at # NULL
        THEN [users |-> us, resetTokens |-> rts, err |-> "token already used"]
        ELSE IF clock > f.row.expires_at
        THEN [users |-> us, resetTokens |-> rts, err |-> "token expired"]
        ELSE IF u.err # Nil
        THEN [users |-> u.users, resetTokens |-> rts,
              err |-> "failed to update password: no rows affected"]
        ELSE [users |-> u.users, resetTokens |-> MarkUsed(rts, f.row.id, clock),
              err |-> Nil]

\* UserService.ResetPasswordUser
ResetPasswordUser(us, rts, token, newPassword, salt, clock) ==
    LET f == FindByToken(rts, token)
        hashedPassword == HashPassword(newPassword, salt)
        u == UpdatePassword(us, f.row.user_id, hashedPassword, clock)
    IN  IF f.err # Nil
        THEN [users |-> us, resetTokens |-> rts, err |-> "invalid or expired token"]
        ELSE IF clock > f.row.expires_at
        THEN [users |-> us, resetTokens |-> rts, err |-> "token expired"]
        ELSE IF f.row.used_at # NULL
        THEN [users |-> us, resetTokens |-> rts, err |-> "token already used"]
        ELSE IF u.err # Nil
        THEN [users |-> u.users, resetTokens |-> rts,
              err |-> "failed to update password: no rows affected"]
        ELSE [users |-> u.users, resetTokens |-> MarkUsed(rts, f.row.id, clock),
              err |-> Nil]

\* ----------------------------------------------------------- session tokens
\* A token string, by what jwt.Parse finds in it: the claims, the alg of the
\* header, the key its signature verifies under, and whether user_id, email
\* and role decode to a number, a string and a string (typed).
NoToken == [user_id |-> 0, email |-> "", role |-> "", iat |-> NULL,
            exp |-> NULL, key |-> "", alg |-> "", typed |-> FALSE]

\* models.JWTClaims
NoClaims == [user_id |-> 0, email |-> "", role |-> ""]

\* *jwt.SigningMethodHMAC
HMACAlgs == {"HS256", "HS384", "HS512"}

\* A variant that issues the token without the 24 hours
GenerateToken_ExpiresAtOnce(userID, email, role, clock) ==
    [user_id |-> userID, email |-> email, role |-> role, iat |-> clock,
     exp |-> clock, key |-> JWTSecret, alg |-> "HS256", typed |-> TRUE]

\* JWTService.GenerateToken: HS256 over the claims with the server's secret.
\* user_id travels as a JSON number and comes back through float64, which is
\* exact for every id of the INT column.
GenerateToken(userID, email, role, clock) ==
    [user_id |-> userID, email |-> email, role |-> role, iat |-> clock,
     exp |-> clock + SessionTTL, key |-> JWTSecret, alg |-> "HS256",
     typed |-> TRUE]

\* A JSON number decoded into a float64: exact up to MantissaBits bits, rounded
\* to the nearest representable value (ties to even) beyond
MantissaBits == 53

RECURSIVE BitLen(_)
BitLen(n) == IF n = 0 THEN 0 ELSE 1 + BitLen(n \div 2)

Float64(n) ==
    IF BitLen(n) =< MantissaBits THEN n
    ELSE LET unit == 2 ^ (BitLen(n) - MantissaBits)
             q == n \div unit
             r == n % unit
         IN  IF 2 * r > unit \/ (2 * r = unit /\ q % 2 = 1)
             THEN (q + 1) * unit
             ELSE q * unit

\* A variant whose key function returns the secret for every alg and whose
\* parser does not verify the signature
ValidateToken_NoSignature(tok, clock) ==
    IF ~(clock < tok.exp) THEN [err |-> "token is expired", claims |-> NoClaims]
    ELSE IF ~tok.typed THEN [err |-> "invalid user_id", claims |-> NoClaims]
    ELSE [err |-> Nil,
          claims |-> [user_id |-> Float64(tok.user_id), email |-> tok.email,
                     role |-> tok.role]]

\* JWTService.ValidateToken: jwt.Parse refuses an alg that is not HMAC,
\* verifies the signature with the server's secret, then the exp claim
\* against the clock; then the claims are read with their types, user_id as
\* a float64 converted to uint
ValidateToken(tok, clock) ==
    IF tok.alg \notin HMACAlgs
    THEN [err |-> "unexpected signing method", claims |-> NoClaims]
    ELSE IF tok.key # JWTSecret
    THEN [err |-> "signature is invalid", claims |-> NoClaims]
    ELSE IF ~(clock < tok.exp) THEN [err |-> "token is expired", claims |-> NoClaims]
    ELSE IF ~tok.typed THEN [err |-> "invalid user_id", claims |-> NoClaims]
    ELSE [err |-> Nil,
          claims |-> [user_id |-> Float64(tok.user_id), email |-> tok.email,
                     role |-> tok.role]]

\* The Authorization header of a request
NoHeader == [present |-> FALSE, bearer |-> FALSE, tok |-> NoToken]
BadFormatHeader == [present |-> TRUE, bearer |-> FALSE, tok |-> NoToken]
Bearer(tok) == [present |-> TRUE, bearer |-> TRUE, tok |-> tok]

\* Tokens the server did not issue: admin claims signed with another key,
\* the same with alg none, and a token that verifies but whose user_id is a
\* string
ForgedToken == [user_id |-> 2, email |-> "admin@example.com", role |-> "admin",
                iat |-> 0, exp |-> SessionTTL, key |-> "guessed",
                alg |-> "HS256", typed |-> TRUE]
NoneAlgToken == [ForgedToken EXCEPT !.alg = "none", !.key = ""]
MalformedToken == [ForgedToken EXCEPT !.key = JWTSecret, !.typed = FALSE]

Headers ==
    {NoHeader, BadFormatHeader, Bearer(NoToken), Bearer(ForgedToken),
     Bearer(NoneAlgToken), Bearer(MalformedToken)}
    \cup (IF session # NoToken THEN {Bearer(session)} ELSE {})

\* A variant that looks at the Bearer prefix before the presence of the header
AuthMiddleware_PrefixFirst(h, clock) ==
    IF ~h.bearer
    THEN [ok |-> FALSE, status |-> StatusUnauthorized,
          error |-> "Invalid token format", ctx |-> NoClaims]
    ELSE IF ~h.present
    THEN [ok |-> FALSE, status |-> StatusUnauthorized,
          error |-> "Authorization header required", ctx |-> NoClaims]
    ELSE IF ValidateToken(h.tok, clock).err # Nil
    THEN [ok |-> FALSE, status |-> StatusUnauthorized,
          error |-> "Invalid or expired token", ctx |-> NoClaims]
    ELSE [ok |-> TRUE, status |-> StatusOK, error |-> "",
          ctx |-> ValidateToken(h.tok, clock).claims]

\* A variant that sets user_role from a default instead of the claim
AuthMiddleware_DefaultRole(h, clock) ==
    IF ~h.present
    THEN [ok |-> FALSE, status |-> StatusUnauthorized,
          error |-> "Authorization header required", ctx |-> NoClaims]
    ELSE IF ~h.bearer
    THEN [ok |-> FALSE, status |-> StatusUnauthorized,
          error |-> "Invalid token format", ctx |-> NoClaims]
    ELSE IF ValidateToken(h.tok, clock).err # Nil
    THEN [ok |-> FALSE, status |-> StatusUnauthorized,
          error |-> "Invalid or expired token", ctx |-> NoClaims]
    ELSE [ok |-> TRUE, status |-> StatusOK, error |-> "",
          ctx |-> [ValidateToken(h.tok, clock).claims EXCEPT !.role = "user"]]

\* routes.AuthMiddleware: the outcome for a header; on success the context
\* holds user_id, user_email and user_role
AuthMiddleware(h, clock) ==
    IF ~h.present
    THEN [ok |-> FALSE, status |-> StatusUnauthorized,
          error |-> "Authorization header required", ctx |-> NoClaims]
    ELSE IF ~h.bearer
    THEN [ok |-> FALSE, status |-> StatusUnauthorized,
          error |-> "Invalid token format", ctx |-> NoClaims]
    ELSE IF ValidateToken(h.tok, clock).err # Nil
    THEN [ok |-> FALSE, status |-> StatusUnauthorized,
          error |-> "Invalid or expired token", ctx |-> NoClaims]
    ELSE [ok |-> TRUE, status |-> StatusOK, error |-> "",
          ctx |-> ValidateToken(h.tok, clock).claims]

\* The headers the middleware lets through
Authorized(clock) == {h \in Headers : AuthMiddleware(h, clock).ok}

\* ------------------------------------------------------------ todo service
\* The ownership rule: the owner, or any admin
Allowed(t, userID, userRole) == t.user_id = userID \/ userRole = "admin"

\* A variant that stores the user_id of the body
CreateTodo_KeepsBodyUserID(tds, nid, t, userID, clock) ==
    RepoCreate(tds, nid, t, clock)

\* TodoService.CreateTodo: the owner is the authenticated user
CreateTodo(tds, nid, t, userID, clock) ==
    RepoCreate(tds, nid, [t EXCEPT !.user_id = userID], clock)

\* TodoService.GetTodoByID
GetTodoByID(tds, id, userID, userRole) ==
    LET f == FindByID(tds, id)
    IN  IF f.err # Nil THEN f
        ELSE IF ~Allowed(f.todo, userID, userRole)
             THEN [err |-> ErrTodoForbidden, todo |-> NoTodo]
        ELSE f

\* A variant that writes first and applies the ownership rule afterwards
UpdateTodo_WritesBeforeCheck(tds, id, t, userID, userRole, clock, sameSecond) ==
    LET f == FindByID(tds, id)
        w == RepoUpdate(tds, id, t, clock, sameSecond)
    IN  IF f.err # Nil THEN [todos |-> tds, err |-> f.err, todo |-> NoTodo]
        ELSE IF ~Allowed(f.todo, userID, userRole)
             THEN [todos |-> w.todos, err |-> ErrTodoForbidden, todo |-> NoTodo]
        ELSE w

\* TodoService.UpdateTodo: the ownership rule, then the repository's Update,
\* which writes title and completed only
UpdateTodo(tds, id, t, userID, userRole, clock, sameSecond) ==
    LET f == FindByID(tds, id)
    IN  IF f.err # Nil THEN [todos |-> tds, err |-> f.err, todo |-> NoTodo]
        ELSE IF ~Allowed(f.todo, userID, userRole)
             THEN [todos |-> tds, err |-> ErrTodoForbidden, todo |-> NoTodo]
        ELSE RepoUpdate(tds, id, t, clock, sameSecond)

\* TodoService.DeleteTodo
\* A variant that tests the requester before it looks for the todo
DeleteTodo_OwnerFirst(tds, id, userID, userRole) ==
    LET f == FindByID(tds, id)
    IN  IF ~Allowed(f.todo, userID, userRole)
        THEN [todos |-> tds, err |-> ErrTodoForbidden]
        ELSE IF f.err # Nil THEN [todos |-> tds, err |-> f.err]
        ELSE RepoDelete(tds, id)

DeleteTodo(tds, id, userID, userRole) ==
    LET f == FindByID(tds, id)
    IN  IF f.err # Nil THEN [todos |-> tds, err |-> f.err]
        ELSE IF ~Allowed(f.todo, userID, userRole)
             THEN [todos |-> tds, err |-> ErrTodoForbidden]
        ELSE RepoDelete(tds, id)

\* A variant that filters by the requester whatever the role
GetTodos_IgnoresRole(tds, userID, userRole) == FindByUserID(tds, userID)

\* TodoService.GetTodos
GetTodos(tds, userID, userRole) ==
    IF userRole = "admin" THEN FindAll(tds) ELSE FindByUserID(tds, userID)

\* ---------------------------------------------------------------- responses
\* The last request (op, the requester of the context, the path id, the
\* user_id of the body, the credentials) and its response (status, error
\* message, payload).
\* owner is the user_id the target todo had when the request arrived, 0 if
\* there was no such todo.
NoResp ==
    [op |-> "none", uid |-> 0, role |-> "", id |-> 0, req_user_id |-> 0,
     req_title |-> "", req_completed |-> FALSE,
     auth |-> NoHeader, username |-> "", req_role |-> "", email |-> "",
     password |-> "", reset |-> <<"hex", 0>>, owner |-> 0,
     status |-> 0, error |-> "", message |-> "", todo |-> NoTodo, list |-> {},
     token |-> NoToken, user |-> NoUser]

OwnerOf(tds, id) == IF id \in DOMAIN tds THEN tds[id].user_id ELSE 0

\* strconv.Atoi(c.Param("id")): a path parameter that parses, or does not
IdParams == {[ok |-> FALSE, val |-> 0]} \cup {[ok |-> TRUE, val |-> i] : i \in 1..(MaxTodos + 1)}

\* The user_id a JSON body carries: none (0), or the id of user 2
BodyUserIDs == {0, 2}

\* c.ShouldBindJSON(&todo): title is binding:"required"
BindTodoOK(t) == t.title # ""

\* The handlers' mapping of a service error to a status and a message
TodoErrorStatus(err, okStatus) ==
    IF err = Nil THEN okStatus
    ELSE IF err = ErrTodoNotFound THEN StatusNotFound
    ELSE IF err = ErrTodoForbidden THEN StatusForbidden
    ELSE StatusInternalServerError

TodoErrorMessage(err, failure) ==
    IF err = Nil THEN ""
    ELSE IF err = ErrTodoNotFound THEN "Todo not found"
    ELSE IF err = ErrTodoForbidden THEN "Access denied"
    ELSE failure

\* ------------------------------------------------------- requests in flight
\* gin serves each request on a goroutine of its own, so the statements of two
\* requests interleave at their database calls.  A slot holds one such
\* request: what it carries, where it stands, what it has read, its answer;
\* raced notes that a database call of it found the work of a request that
\* was in flight with it.
MaxProcs == 2
Procs == 1..MaxProcs

NoProc ==
    [op |-> "idle", pc |-> "idle", reset |-> NoResetToken.token, password |-> "",
     row |-> NoResetToken, hash |-> NoHash, username |-> "", email |-> "",
     id |-> 0, uid |-> 0, role |-> "", owner |-> 0, fault |-> FALSE, raced |-> FALSE,
     status |-> 0, error |-> ""]

NoProcs == [i \in Procs |-> NoProc]

\* The salt bcrypt draws for the request of a slot: one no other hash has
ProcSalt(i) == Cardinality(Salts) + i

\* c.JSON(status, ...) of the request in a slot
Done(p, status, error) == [p EXCEPT !.pc = "done", !.status = status, !.error = error]

\* ------------------------------------------------------------------- Init
\* The tables as the test setup leaves them: normal_user (id 1, role user),
\* admin_user (id 2, role admin); no todos, no reset tokens, no cookie.
SeedUsers ==
    (1 :> [id |-> 1, username |-> "normal_user", email |-> "normal_user@example.com",
           password_hash |-> HashPassword("password123", 0), role |-> "user",
           updated_at |-> 0])
    @@
    (2 :> [id |-> 2, username |-> "admin_user", email |-> "admin@example.com",
           password_hash |-> HashPassword("adminpass", 0), role |-> "admin",
           updated_at |-> 0])

Init ==
    /\ now = 0
    /\ users = SeedUsers
    /\ todos = <<>>
    /\ nextTodoID = 1
    /\ resetTokens = <<>>
    /\ session = NoToken
    /\ resp = NoResp
    /\ procs = NoProcs

\* ------------------------------------------------------------------ clock
Tick ==
    /\ now < MaxTime
    /\ now' = now + 1
    /\ UNCHANGED <<users, todos, nextTodoID, resetTokens, session, resp, procs>>

\* ------------------------------------------------------------ middleware
\* A request to a protected route that the middleware aborts; the handlers
\* below run for the requests it lets through
AuthMiddlewareAbort ==
    \E h \in Headers :
        LET a == AuthMiddleware(h, now)
        IN  /\ ~a.ok
            /\ resp' = [NoResp EXCEPT !.op = "protected", !.auth = h,
                                      !.status = a.status, !.error = a.error]
            /\ UNCHANGED <<now, users, todos, nextTodoID, resetTokens, session, procs>>

\* A variant that refuses the token of a user whose password has been changed
ProtectedHandler_ChecksPasswordChange ==
    \E h \in Authorized(now) :
        LET a == AuthMiddleware(h, now)
            revoked == /\ a.ctx.user_id \in DOMAIN users
                       /\ users[a.ctx.user_id].password_hash
                             # SeedUsers[a.ctx.user_id].password_hash
        IN  /\ resp' = IF revoked
                       THEN [NoResp EXCEPT !.op = "protected", !.auth = h,
                                           !.status = StatusUnauthorized,
                                           !.error = "Invalid or expired token"]
                       ELSE [NoResp EXCEPT !.op = "protected", !.auth = h,
                                           !.status = StatusOK,
                                           !.message = "Access granted",
                                           !.uid = a.ctx.user_id,
                                           !.email = a.ctx.email,
                                           !.role = a.ctx.role]
            /\ UNCHANGED <<now, users, todos, nextTodoID, resetTokens, session, procs>>

\* UserHandler.ProtectedHandler, behind the middleware: answers with what the
\* context holds
ProtectedHandler ==
    \E h \in Authorized(now) :
        LET a == AuthMiddleware(h, now)
        IN  /\ resp' = [NoResp EXCEPT !.op = "protected", !.auth = h,
                                      !.status = StatusOK,
                                      !.message = "Access granted",
                                      !.uid = a.ctx.user_id,
                                      !.email = a.ctx.email,
                                      !.role = a.ctx.role]
            /\ UNCHANGED <<now, users, todos, nextTodoID, resetTokens, session, procs>>

\* ---------------------------------------------------------- todo handlers
CreateTodoHandler ==
    \E h \in Authorized(now), uid \in BodyUserIDs, title \in Titles, completed \in BOOLEAN :
        LET a == AuthMiddleware(h, now)
            newTodo == BodyTodo(uid, title, completed)
            base == [NoResp EXCEPT !.op = "create", !.auth = h, !.uid = a.ctx.user_id,
                                   !.role = a.ctx.role]
            r == CreateTodo(todos, nextTodoID, newTodo, a.ctx.user_id, now)
        IN  /\ a.ok
            /\ IF ~BindTodoOK(newTodo)
               THEN /\ resp' = [base EXCEPT !.status = StatusBadRequest,
                                            !.error = "Invalid request payload"]
                    /\ UNCHANGED <<todos, nextTodoID>>
               ELSE /\ nextTodoID <= MaxTodos
                    /\ todos' = r.todos
                    /\ nextTodoID' = nextTodoID + 1
                    /\ resp' = [base EXCEPT !.req_user_id = uid,
                                            !.req_title = title,
                                            !.req_completed = completed,
                                            !.status = StatusCreated, !.todo = r.todo]
            /\ UNCHANGED <<now, users, resetTokens, session, procs>>

UpdateTodoHandler ==
    \E h \in Authorized(now), idp \in IdParams, uid \in BodyUserIDs,
       title \in Titles, completed \in BOOLEAN, sameSecond \in BOOLEAN :
        LET a == AuthMiddleware(h, now)
            updateTodo == BodyTodo(uid, title, completed)
            base == [NoResp EXCEPT !.op = "update", !.auth = h, !.uid = a.ctx.user_id,
                                   !.role = a.ctx.role, !.id = idp.val,
                                   !.owner = OwnerOf(todos, idp.val)]
            r == UpdateTodo(todos, idp.val, updateTodo, a.ctx.user_id, a.ctx.role, now,
                            sameSecond)
        IN  /\ a.ok
            /\ IF ~idp.ok
               THEN /\ resp' = [base EXCEPT !.status = StatusBadRequest,
                                            !.error = "Invalid ID format"]
                    /\ UNCHANGED todos
               ELSE IF ~BindTodoOK(updateTodo)
               THEN /\ resp' = [base EXCEPT !.status = StatusBadRequest,
                                            !.error = "Invalid request payload"]
                    /\ UNCHANGED todos
               ELSE /\ todos' = r.todos
                    /\ resp' = [base EXCEPT !.req_user_id = uid,
                                   !.status = TodoErrorStatus(r.err, StatusOK),
                                   !.error = TodoErrorMessage(r.err, "Failed to update todo"),
                                   !.todo = r.todo]
            /\ UNCHANGED <<now, users, nextTodoID, resetTokens, session, procs>>

DeleteTodoHandler ==
    \E h \in Authorized(now), idp \in IdParams :
        LET a == AuthMiddleware(h, now)
            base == [NoResp EXCEPT !.op = "delete", !.auth = h, !.uid = a.ctx.user_id,
                                   !.role = a.ctx.role, !.id = idp.val,
                                   !.owner = OwnerOf(todos, idp.val)]
            r == DeleteTodo(todos, idp.val, a.ctx.user_id, a.ctx.role)
        IN  /\ a.ok
            /\ IF ~idp.ok
               THEN /\ resp' = [base EXCEPT !.status = StatusBadRequest,
                                            !.error = "Invalid ID format"]
                    /\ UNCHANGED todos
               ELSE /\ todos' = r.todos
                    /\ resp' = [base EXCEPT
                                   !.status = TodoErrorStatus(r.err, StatusNoContent),
                                   !.error = TodoErrorMessage(r.err, "Failed to delete todo")]
            /\ UNCHANGED <<now, users, nextTodoID, resetTokens, session, procs>>

GetTodosHandler ==
    \E h \in Authorized(now) :
        LET a == AuthMiddleware(h, now)
        IN  /\ a.ok
            /\ resp' = [NoResp EXCEPT !.op = "list", !.auth = h, !.uid = a.ctx.user_id,
                                      !.role = a.ctx.role, !.status = StatusOK,
                                      !.list = GetTodos(todos, a.ctx.user_id, a.ctx.role)]
            /\ UNCHANGED <<now, users, todos, nextTodoID, resetTokens, session, procs>>

GetTodoByIDHandler ==
    \E h \in Authorized(now), idp \in IdParams :
        LET a == AuthMiddleware(h, now)
            base == [NoResp EXCEPT !.op = "get", !.auth = h, !.uid = a.ctx.user_id,
                                   !.role = a.ctx.role, !.id = idp.val,
                                   !.owner = OwnerOf(todos, idp.val)]
            r == GetTodoByID(todos, idp.val, a.ctx.user_id, a.ctx.role)
        IN  /\ a.ok
            /\ IF ~idp.ok
               THEN resp' = [base EXCEPT !.status = StatusBadRequest,
                                         !.error = "Invalid ID format"]
               ELSE resp' = [base EXCEPT
                                !.status = TodoErrorStatus(r.err, StatusOK),
                                !.error = TodoErrorMessage(r.err, "Failed to fetch todo"),
                                !.todo = r.todo]
            /\ UNCHANGED <<now, users, todos, nextTodoID, resetTokens, session, procs>>

\* ---------------------------------------------------------- user handlers
\* c.ShouldBindJSON(&req) of UserRegisterRequest: username and password are
\* required with min=8, email is required
BindRegisterOK(username, email, password) ==
    Len(username) >= 8 /\ email # "" /\ Len(password) >= 8

\* The "role" a register body may carry; UserRegisterRequest has no such
\* field, so binding drops it
BodyRoles == {"", "admin"}

\* A variant that stores the role of the body when it carries one
RegisterHandler_TrustsBodyRole ==
    \E username \in Usernames, email \in Emails,
       password \in Passwords \cup {""}, salt \in Salts, role \in BodyRoles :
        LET base == [NoResp EXCEPT !.op = "register", !.username = username,
                                   !.email = email, !.password = password,
                                   !.req_role = role]
            r == RegisterUser(users, username, email, password, salt, now)
            stored == IF role = "" THEN r.user.role ELSE role
        IN  /\ IF ~BindRegisterOK(username, email, password)
               THEN /\ resp' = [base EXCEPT !.status = StatusBadRequest,
                                            !.error = "Invalid request payload"]
                    /\ UNCHANGED users
               ELSE IF r.err = ErrDuplicateEmail
               THEN /\ resp' = [base EXCEPT !.status = StatusConflict,
                                            !.error = "Username or email already exists"]
                    /\ UNCHANGED users
               ELSE /\ Cardinality(DOMAIN users) < MaxUsers
                    /\ users' = [r.users EXCEPT ![r.user.id].role = stored]
                    /\ resp' = [base EXCEPT !.status = StatusCreated,
                                            !.user = [r.user EXCEPT !.role = stored]]
            /\ UNCHANGED <<now, todos, nextTodoID, resetTokens, session, procs>>

RegisterHandler ==
    \E username \in Usernames, email \in Emails,
       password \in Passwords \cup {""}, salt \in Salts, role \in BodyRoles :
        LET base == [NoResp EXCEPT !.op = "register", !.username = username,
                                   !.email = email, !.password = password,
                                   !.req_role = role]
            r == RegisterUser(users, username, email, password, salt, now)
        IN  /\ IF ~BindRegisterOK(username, email, password)
               THEN /\ resp' = [base EXCEPT !.status = StatusBadRequest,
                                            !.error = "Invalid request payload"]
                    /\ UNCHANGED users
               ELSE IF r.err = ErrDuplicateEmail
               THEN /\ resp' = [base EXCEPT !.status = StatusConflict,
                                            !.error = "Username or email already exists"]
                    /\ UNCHANGED users
               ELSE /\ Cardinality(DOMAIN users) < MaxUsers
                    /\ users' = r.users
                    /\ resp' = [base EXCEPT !.status = StatusCreated, !.user = r.user]
            /\ UNCHANGED <<now, todos, nextTodoID, resetTokens, session, procs>>

\* c.ShouldBindJSON(&req) of UserLoginRequest: both fields are required
BindLoginOK(email, password) == email # "" /\ password # ""

\* A variant that answers with the service's error
LoginHandler_TellsWhy ==
    \E email \in Emails, password \in Passwords \cup {""} :
        LET base == [NoResp EXCEPT !.op = "login", !.email = email,
                                   !.password = password]
            r == AuthenticateUser(users, email, password)
            token == GenerateToken(r.user.id, r.user.email, r.user.role, now)
        IN  /\ IF ~BindLoginOK(email, password)
               THEN /\ resp' = [base EXCEPT !.status = StatusBadRequest,
                                            !.error = "Invalid request payload"]
               ELSE IF r.err # Nil
               THEN /\ resp' = [base EXCEPT !.status = StatusUnauthorized,
                                            !.error = r.err]
               ELSE /\ resp' = [base EXCEPT !.status = StatusOK, !.token = token,
                                            !.uid = r.user.id, !.role = r.user.role]
            /\ UNCHANGED <<now, users, todos, nextTodoID, resetTokens, session, procs>>

LoginHandler ==
    \E email \in Emails, password \in Passwords \cup {""} :
        LET base == [NoResp EXCEPT !.op = "login", !.email = email,
                                   !.password = password]
            r == AuthenticateUser(users, email, password)
            token == GenerateToken(r.user.id, r.user.email, r.user.role, now)
        IN  /\ IF ~BindLoginOK(email, password)
               THEN /\ resp' = [base EXCEPT !.status = StatusBadRequest,
                                            !.error = "Invalid request payload"]
               ELSE IF r.err # Nil
               THEN /\ resp' = [base EXCEPT !.status = StatusUnauthorized,
                                            !.error = "Invalid credentials"]
               ELSE /\ resp' = [base EXCEPT !.status = StatusOK, !.token = token,
                                            !.uid = r.user.id, !.role = r.user.role]
            /\ UNCHANGED <<now, users, todos, nextTodoID, resetTokens, session, procs>>

\* AuthContext.login: the browser keeps the token of the login response in
\* its cookie, in place of the one it held
StoreToken ==
    /\ resp.op = "login"
    /\ resp.status = StatusOK
    /\ session' = resp.token
    /\ UNCHANGED <<now, users, todos, nextTodoID, resetTokens, resp, procs>>

\* c.ShouldBindJSON(&req) of UserForgotPasswordRequest
BindForgotOK(email) == email # ""

ForgotPasswordHandler ==
    \E email \in Emails \cup {""} :
        LET base == [NoResp EXCEPT !.op = "forgot", !.email = email]
            r == ForgotPasswordUser(users, resetTokens, email, now)
        IN  /\ IF ~BindForgotOK(email)
               THEN /\ resp' = [base EXCEPT !.status = StatusBadRequest,
                                            !.error = "Invalid request payload"]
                    /\ UNCHANGED resetTokens
               ELSE IF r.err # Nil
               THEN /\ resp' = [base EXCEPT !.status = StatusInternalServerError,
                                   !.error = "Failed to process password reset"]
                    /\ UNCHANGED resetTokens
               ELSE /\ Cardinality(DOMAIN r.resetTokens) <= MaxResetTokens
                    /\ resetTokens' = r.resetTokens
                    /\ resp' = [base EXCEPT !.status = StatusOK,
                                            !.message = "Password reset email sent"]
            /\ UNCHANGED <<now, users, todos, nextTodoID, session, procs>>

\* c.ShouldBindJSON(&req) of UserResetPasswordRequest: required, min=8
BindResetOK(password) == Len(password) >= 8

\* The salt bcrypt draws for a new hash: never the salt of the stored hash
FreshSalts(us, rts, token) ==
    LET f == FindByToken(rts, token)
    IN  IF f.err = Nil /\ f.row.user_id \in DOMAIN us
        THEN Salts \ {us[f.row.user_id].password_hash[2]}
        ELSE Salts

ResetPasswordHandler ==
    \E token \in ResetTokenStrings, password \in Passwords \cup {""},
       salt \in Salts :
        LET base == [NoResp EXCEPT !.op = "reset", !.reset = token,
                                   !.password = password]
            r == ResetPasswordUser(users, resetTokens, token, password, salt, now)
        IN  /\ salt \in FreshSalts(users, resetTokens, token)
            /\ IF ~BindResetOK(password)
               THEN /\ resp' = [base EXCEPT !.status = StatusBadRequest,
                                            !.error = "Invalid request payload"]
                    /\ UNCHANGED <<users, resetTokens>>
               ELSE /\ users' = r.users
                    /\ resetTokens' = r.resetTokens
                    /\ resp' = IF r.err # Nil
                               THEN [base EXCEPT !.status = StatusBadRequest,
                                                 !.error = r.err]
                               ELSE [base EXCEPT !.status = StatusOK,
                                        !.message = "Password reset successfully"]
            /\ UNCHANGED <<now, todos, nextTodoID, session, procs>>

\* DeleteTodoHandler and TodoService.DeleteTodo, statement by statement.
\* First: parse the id, read the requester from the context AuthMiddleware
\* filled from a session token, FindByID, and the ownership rule.
DeleteFind ==
    \E i \in Procs, u \in DOMAIN users, idp \in IdParams :
        LET h == Bearer(GenerateToken(u, users[u].email, users[u].role, now))
            a == AuthMiddleware(h, now)
            f == FindByID(todos, idp.val)
            p == [procs[i] EXCEPT !.op = "delete", !.id = idp.val,
                                  !.uid = a.ctx.user_id, !.role = a.ctx.role,
                                  !.owner = OwnerOf(todos, idp.val)]
        IN  /\ procs[i].pc = "idle"
            /\ a.ok
            /\ procs' = [procs EXCEPT ![i] =
                  IF ~idp.ok
                  THEN Done(p, StatusBadRequest, "Invalid ID format")
                  ELSE IF f.err # Nil
                  THEN Done(p, TodoErrorStatus(f.err, StatusNoContent),
                            TodoErrorMessage(f.err, "Failed to delete todo"))
                  ELSE IF ~Allowed(f.todo, a.ctx.user_id, a.ctx.role)
                  THEN Done(p, TodoErrorStatus(ErrTodoForbidden, StatusNoContent),
                            TodoErrorMessage(ErrTodoForbidden, "Failed to delete todo"))
                  ELSE [p EXCEPT !.pc = "delete"]]
            /\ UNCHANGED <<now, users, todos, nextTodoID, resetTokens, session, resp>>

\* Then: Repository.Delete, and the handler's answer.  A request that waits
\* here for a row another request's DELETE removes has raced.
DeleteRepo ==
    \E i \in Procs :
        LET p == procs[i]
            r == RepoDelete(todos, p.id)
        IN  /\ p.pc = "delete"
            /\ todos' = r.todos
            /\ procs' = [j \in Procs |->
                  IF j = i
                  THEN Done(p, TodoErrorStatus(r.err, StatusNoContent),
                            TodoErrorMessage(r.err, "Failed to delete todo"))
                  ELSE IF r.err = Nil /\ procs[j].pc = "delete" /\ procs[j].id = p.id
                  THEN [procs[j] EXCEPT !.raced = TRUE]
                  ELSE procs[j]]
            /\ UNCHANGED <<now, users, nextTodoID, resetTokens, session, resp>>

\* RegisterHandler and UserService.RegisterUser, statement by statement.
\* First: bind the body, HashPassword, build the user with role "user".
RegisterBind ==
    \E i \in Procs, username \in Usernames \cup {"other_user"}, email \in Emails,
       password \in Passwords \cup {""} :
        LET p == [procs[i] EXCEPT !.op = "register", !.username = username,
                                  !.email = email, !.password = password]
        IN  /\ procs[i].pc = "idle"
            /\ procs' = [procs EXCEPT ![i] =
                  IF ~BindRegisterOK(username, email, password)
                  THEN Done(p, StatusBadRequest, "Invalid request payload")
                  ELSE [p EXCEPT !.pc = "insert", !.role = "user",
                                 !.hash = HashPassword(password, ProcSalt(i))]]
            /\ UNCHANGED <<now, users, todos, nextTodoID, resetTokens, session, resp>>

\* Second: userRepo.Create, one INSERT that the unique indexes of users may
\* refuse with error 1062
RegisterCreate ==
    \E i \in Procs :
        LET p == procs[i]
            newUser == [id |-> 0, username |-> p.username, email |-> p.email,
                        password_hash |-> p.hash, role |-> p.role,
                        updated_at |-> now]
            c == UserCreate(users, newUser)
            waiting(k) == /\ procs[k].op = "register"
                          /\ procs[k].pc = "insert"
                          /\ procs[k].email = p.email
        IN  /\ p.op = "register"
            /\ p.pc = "insert"
            /\ users' = c.users
            /\ procs' = [k \in Procs |->
                  IF k = i
                  THEN IF c.err = ErrDuplicateEmail
                       THEN Done(p, StatusConflict, "Username or email already exists")
                       ELSE [Done(p, StatusCreated, "") EXCEPT !.id = c.user.id]
                  ELSE IF c.err = Nil /\ waiting(k)
                  THEN [procs[k] EXCEPT !.raced = TRUE]
                  ELSE procs[k]]
            /\ UNCHANGED <<now, todos, nextTodoID, resetTokens, session, resp>>

\* ResetPasswordHandler and UserService.ResetPasswordUser, statement by
\* statement.  First: bind the body, FindByToken, the tests on the row read,
\* HashPassword.
ResetFindByToken ==
    \E i \in Procs, token \in ResetTokenStrings, password \in Passwords \cup {""} :
        LET p == [procs[i] EXCEPT !.op = "reset", !.reset = token,
                                  !.password = password]
            f == FindByToken(resetTokens, token)
        IN  /\ procs[i].pc = "idle"
            /\ procs' = [procs EXCEPT ![i] =
                  IF ~BindResetOK(password)
                  THEN Done(p, StatusBadRequest, "Invalid request payload")
                  ELSE IF f.err # Nil
                  THEN Done(p, StatusBadRequest, "invalid or expired token")
                  ELSE IF now > f.row.expires_at
                  THEN Done(p, StatusBadRequest, "token expired")
                  ELSE IF f.row.used_at # NULL
                  THEN Done(p, StatusBadRequest, "token already used")
                  ELSE [p EXCEPT !.pc = "update", !.row = f.row,
                                 !.hash = HashPassword(password, ProcSalt(i))]]
            /\ UNCHANGED <<now, users, todos, nextTodoID, resetTokens, session, resp>>

\* Second: userRepo.UpdatePassword for the user of the row read; the UPDATE
\* may fail in the database
ResetUpdatePassword ==
    \E i \in Procs, fault \in BOOLEAN :
        LET p == procs[i]
            u == UpdatePassword(users, p.row.user_id, p.hash, now)
        IN  /\ p.op = "reset"
            /\ p.pc = "update"
            /\ IF fault
               THEN /\ procs' = [procs EXCEPT ![i] =
                          Done(p, StatusBadRequest,
                               "failed to update password: driver: bad connection")]
                    /\ UNCHANGED users
               ELSE IF u.err # Nil
               THEN /\ procs' = [procs EXCEPT ![i] =
                          Done(p, StatusBadRequest,
                               "failed to update password: no rows affected")]
                    /\ users' = u.users
               ELSE /\ procs' = [procs EXCEPT ![i] = [p EXCEPT !.pc = "mark"]]
                    /\ users' = u.users
            /\ UNCHANGED <<now, todos, nextTodoID, resetTokens, session, resp>>

\* A variant that answers the error of MarkUsed
ResetMarkUsed_ReportsFault ==
    \E i \in Procs, fault \in BOOLEAN :
        LET p == procs[i]
        IN  /\ p.op = "reset"
            /\ p.pc = "mark"
            /\ resetTokens' = IF fault THEN resetTokens
                              ELSE MarkUsed(resetTokens, p.row.id, now)
            /\ procs' = [procs EXCEPT ![i] =
                  IF fault
                  THEN [Done(p, StatusBadRequest, "failed to mark token as used")
                           EXCEPT !.fault = fault]
                  ELSE Done(p, StatusOK, "")]
            /\ UNCHANGED <<now, users, todos, nextTodoID, session, resp>>

\* Third: resetTokenRepo.MarkUsed; its error is logged and the answer is 200
\* either way
ResetMarkUsed ==
    \E i \in Procs, fault \in BOOLEAN :
        LET p == procs[i]
        IN  /\ p.op = "reset"
            /\ p.pc = "mark"
            /\ resetTokens' = IF fault THEN resetTokens
                              ELSE MarkUsed(resetTokens, p.row.id, now)
            /\ procs' = [procs EXCEPT ![i] =
                  [Done(p, StatusOK, "") EXCEPT !.fault = fault]]
            /\ UNCHANGED <<now, users, todos, nextTodoID, session, resp>>

\* AuthContext.logout: the browser drops its cookie; the server is not told
Logout ==
    /\ session # NoToken
    /\ session' = NoToken
    /\ UNCHANGED <<now, users, todos, nextTodoID, resetTokens, resp, procs>>

\* ------------------------------------------------------------------ specs
NextTodo ==
    \/ Tick
    \/ LoginHandler
    \/ StoreToken
    \/ Logout
    \/ AuthMiddlewareAbort
    \/ CreateTodoHandler
    \/ UpdateTodoHandler
    \/ DeleteTodoHandler
    \/ GetTodosHandler
    \/ GetTodoByIDHandler

SpecTodo == Init /\ [][NextTodo]_vars

\* The password flows of the seeded users
NextAuth ==
    \/ Tick
    \/ LoginHandler
    \/ ForgotPasswordHandler
    \/ ResetPasswordHandler

SpecAuth == Init /\ [][NextAuth]_vars

\* Listing: the todos table holds up to MaxListTodos rows of either seeded
\* user, as earlier creates leave it
ListTables ==
    UNION {[1..n -> {1, 2}] : n \in 0..MaxListTodos}

ListRows(owners) ==
    [i \in DOMAIN owners |->
        [id |-> i, user_id |-> owners[i], title |-> "buy milk",
         completed |-> FALSE, updated_at |-> 0]]

InitList ==
    /\ now = 0
    /\ users = SeedUsers
    /\ \E owners \in ListTables :
          /\ todos = ListRows(owners)
          /\ nextTodoID = Len(owners) + 1
    /\ resetTokens = <<>>
    /\ session = NoToken
    /\ resp = NoResp
    /\ procs = NoProcs

NextList ==
    \/ Tick
    \/ LoginHandler
    \/ StoreToken
    \/ Logout
    \/ GetTodosHandler

SpecList == InitList /\ [][NextList]_vars

\* User flows besides the reset flow: registration and login
NextUser ==
    \/ Tick
    \/ RegisterHandler
    \/ LoginHandler

SpecUser == Init /\ [][NextUser]_vars

\* Protected routes: the browser may still hold the token of a login made
\* before the run starts, one hour short of its expiry
PastIssueTimes == {1 - SessionTTL}

InitSession ==
    /\ now = 0
    /\ users = SeedUsers
    /\ todos = <<>>
    /\ nextTodoID = 1
    /\ resetTokens = <<>>
    /\ session \in {NoToken} \cup
          {GenerateToken(SeedUsers[i].id, SeedUsers[i].email, SeedUsers[i].role, t) :
              i \in DOMAIN SeedUsers, t \in PastIssueTimes}
    /\ resp = NoResp
    /\ procs = NoProcs

NextSession ==
    \/ Tick
    \/ LoginHandler
    \/ StoreToken
    \/ Logout
    \/ AuthMiddlewareAbort
    \/ ProtectedHandler
    \/ CreateTodoHandler
    \/ UpdateTodoHandler
    \/ DeleteTodoHandler
    \/ GetTodosHandler
    \/ GetTodoByIDHandler

SpecSession == InitSession /\ [][NextSession]_vars

\* The ids of the INT column that tokens are generated for, and the roles
MaxUserID == 2147483647
TokenUserIDs == {1, 2, MaxUserID}
TokenRoles == {"user", "admin", ""}

\* Tokens of any user: the browser holds a token the server generated for
\* some id, email and role, now or one hour short of its expiry
InitToken ==
    /\ now = 0
    /\ users = SeedUsers
    /\ todos = <<>>
    /\ nextTodoID = 1
    /\ resetTokens = <<>>
    /\ session \in {GenerateToken(id, e, r, t) :
                        id \in TokenUserIDs, e \in Emails, r \in TokenRoles,
                        t \in PastIssueTimes \cup {0}}
    /\ resp = NoResp
    /\ procs = NoProcs

NextToken ==
    \/ Tick
    \/ LoginHandler
    \/ StoreToken
    \/ AuthMiddlewareAbort
    \/ ProtectedHandler
    \/ GetTodosHandler

SpecToken == InitToken /\ [][NextToken]_vars

\* A session across the password flows: the browser keeps the token of a
\* login (it need not store the token of a later one) while passwords are
\* reset and logins repeated
NextRevoke ==
    \/ Tick
    \/ LoginHandler
    \/ StoreToken
    \/ ForgotPasswordHandler
    \/ ResetPasswordHandler
    \/ AuthMiddlewareAbort
    \/ ProtectedHandler

SpecRevoke == Init /\ [][NextRevoke]_vars

\* Every route that reaches the users table, one request at a time, within
\* one hour
NextUsersTable ==
    \/ RegisterHandler
    \/ LoginHandler
    \/ ForgotPasswordHandler
    \/ ResetPasswordHandler

SpecUsersTable == Init /\ [][NextUsersTable]_vars

\* Registrations served concurrently
NextRegisterSteps ==
    \/ RegisterBind
    \/ RegisterCreate

SpecRegisterSteps == Init /\ [][NextRegisterSteps]_vars

\* Password resets served concurrently, with a database that may fail
NextResetSteps ==
    \/ Tick
    \/ ForgotPasswordHandler
    \/ ResetFindByToken
    \/ ResetUpdatePassword
    \/ ResetMarkUsed

SpecResetSteps == Init /\ [][NextResetSteps]_vars

\* Delete requests served at the same time against a stored todos table
NextDeleteSteps ==
    \/ DeleteFind
    \/ DeleteRepo

SpecDeleteSteps == InitList /\ [][NextDeleteSteps]_vars

Next ==
    NextTodo \/ NextAuth \/ NextUser \/ NextList \/ NextSession \/ NextToken
    \/ NextRevoke \/ NextResetSteps \/ NextRegisterSteps \/ NextUsersTable
    \/ NextDeleteSteps

Spec == Init /\ [][Next]_vars

\* ------------------------------------------------------------- properties
\* C1, as stated: a well-formed get, update or delete of a todo that exists
\* is answered 403 when the requester is neither its owner nor an admin, and
\* succeeds (200, or 204 for delete) when the requester is its owner or an
\* admin.
C1_OwnerOrAdminSucceeds ==
    (resp.op \in {"get", "update", "delete"} /\ resp.owner # 0
        /\ resp.status # StatusBadRequest)
    => IF resp.owner # resp.uid /\ resp.role # "admin"
       THEN resp.status = StatusForbidden
       ELSE resp.status \in {StatusOK, StatusNoContent}

\* C2: an update or delete answered 403 leaves the todos table as it was: the
\* target row still exists, with the title, completed and user_id it had.
C2_ForbiddenLeavesTodo ==
    [][(resp'.op \in {"update", "delete"} /\ resp'.status = StatusForbidden)
        => (resp'.id \in DOMAIN todos /\ todos' = todos)]_vars

\* C2 witness: an update of a todo of another user was answered 403
C2_Witness ==
    /\ resp.op = "update"
    /\ resp.status = StatusForbidden
    /\ resp.id \in DOMAIN todos
    /\ todos[resp.id].user_id # resp.uid

\* C3: no step changes the user_id of a stored todo, whatever user_id the
\* body of an update carries.
C3_OwnerNeverChanges ==
    [][\A i \in DOMAIN todos \cap DOMAIN todos' :
          todos'[i].user_id = todos[i].user_id]_vars

\* C3 witness: an update whose body names another user as owner succeeded
C3_Witness ==
    /\ resp.op = "update"
    /\ resp.status = StatusOK
    /\ resp.req_user_id # 0
    /\ resp.req_user_id # resp.todo.user_id

\* C4: a created todo is stored with the user_id of the authenticated
\* requester, whatever user_id the body carries.
C4_CreateOwnedByRequester ==
    (resp.op = "create" /\ resp.status = StatusCreated)
    => /\ resp.todo.id \in DOMAIN todos
       /\ todos[resp.todo.id].user_id = resp.uid
       /\ resp.todo.user_id = resp.uid

\* C4 witness: a create whose body names another user was answered 201
C4_Witness ==
    /\ resp.op = "create"
    /\ resp.status = StatusCreated
    /\ resp.req_user_id # 0
    /\ resp.req_user_id # resp.uid

\* C5: the list answered to an admin holds every stored todo; the list
\* answered to anyone else holds exactly the todos whose user_id is theirs.
C5_ListByRole ==
    resp.op = "list"
    => /\ resp.status = StatusOK
       /\ resp.list = IF resp.role = "admin"
                      THEN {todos[i] : i \in DOMAIN todos}
                      ELSE {todos[i] : i \in {j \in DOMAIN todos :
                                                todos[j].user_id = resp.uid}}

\* C5 witness: a plain user listed a table that also holds todos of another
\* user, and got some but not all of its rows
C5_Witness ==
    /\ resp.op = "list"
    /\ resp.role # "admin"
    /\ resp.list # {}
    /\ resp.list # {todos[i] : i \in DOMAIN todos}

C7_ExpiryWindow ==
    [][/\ (resp'.op = "forgot" /\ ForgotPasswordHandler)
          => \A i \in DOMAIN resetTokens' \ DOMAIN resetTokens :
                resetTokens'[i].expires_at = now + ResetTokenTTL
       /\ (resp'.op = "reset" /\ ResetPasswordHandler /\ BindResetOK(resp'.password))
          => LET f == FindByToken(resetTokens, resp'.reset)
             IN  /\ (resp'.status = StatusOK)
                    => (f.err = Nil /\ now <= f.row.expires_at)
                 /\ (f.err = Nil /\ now > f.row.expires_at)
                    => /\ resp'.status = StatusBadRequest
                       /\ resp'.error = "token expired"
                       /\ users' = users
                       /\ resetTokens' = resetTokens]_vars

\* C7 witness: a reset with a stored token past its expires_at was refused
C7_Witness ==
    /\ resp.op = "reset"
    /\ resp.error = "token expired"
    /\ now > FindByToken(resetTokens, resp.reset).row.expires_at

\* C7, as stated: a reset succeeds only before expires_at.
C7_OnlyBefore ==
    [][(resp'.op = "reset" /\ resp'.status = StatusOK /\ ResetPasswordHandler)
       => now < FindByToken(resetTokens, resp'.reset).row.expires_at]_vars

C9_LoginToken ==
    resp.op = "login"
    => IF resp.status = StatusOK
       THEN \E i \in DOMAIN users :
               /\ users[i].email = resp.email
               /\ users[i].password_hash =
                     HashPassword(resp.password, users[i].password_hash[2])
               /\ resp.token.user_id = users[i].id
               /\ resp.token.email = users[i].email
               /\ resp.token.role = users[i].role
               /\ resp.token.key = JWTSecret
       ELSE resp.token = NoToken

\* C9 witness: a login succeeded for a seeded user whose password a reset
\* has changed
C9_Witness ==
    /\ resp.op = "login"
    /\ resp.status = StatusOK
    /\ resp.uid \in DOMAIN SeedUsers
    /\ users[resp.uid].password_hash # SeedUsers[resp.uid].password_hash

\* C10: a well-formed login that fails is answered 401 with the error
\* "Invalid credentials" and nothing else, for an email no user has as for a
\* wrong password.
C10_SameFailure ==
    (resp.op = "login" /\ BindLoginOK(resp.email, resp.password)
        /\ resp.status # StatusOK)
    => resp = [NoResp EXCEPT !.op = "login", !.email = resp.email,
                             !.password = resp.password,
                             !.status = StatusUnauthorized,
                             !.error = "Invalid credentials"]

\* C10 witness: a login with the email of a user and a wrong password was
\* answered 401, as one with an email no user has would be
C10_Witness ==
    /\ resp.op = "login"
    /\ resp.status = StatusUnauthorized
    /\ FindByEmail(users, resp.email).err = Nil
    /\ VerifyPassword(FindByEmail(users, resp.email).user.password_hash,
                      resp.password) # Nil

\* C11: a well-formed register request whose email a stored user has is
\* answered 409 "Username or email already exists", whatever its username, and
\* adds no user; no two stored users share an email.
C11_DuplicateEmailRefused ==
    [][/\ (/\ resp'.op = "register"
           /\ RegisterHandler
           /\ BindRegisterOK(resp'.username, resp'.email, resp'.password)
           /\ \E i \in DOMAIN users : users[i].email = resp'.email)
          => /\ resp'.status = StatusConflict
             /\ resp'.error = "Username or email already exists"
             /\ users' = users
       /\ \A i, j \in DOMAIN users' :
             (i # j) => (users'[i].email # users'[j].email)]_vars

\* C11 witness: a register with the email of a stored user and a username no
\* user has was answered 409
C11_Witness ==
    /\ resp.op = "register"
    /\ resp.status = StatusConflict
    /\ \E i \in DOMAIN users : users[i].email = resp.email
    /\ \A i \in DOMAIN users : users[i].username # resp.username

\* C12: every user a register stores has role "user", whatever the body
\* carries, and so has the user the response returns.
C12_RegisterRoleUser ==
    [][(resp'.op = "register" /\ RegisterHandler /\ resp'.status = StatusCreated)
       => /\ resp'.user.role = "user"
          /\ \A i \in DOMAIN users' \ DOMAIN users : users'[i].role = "user"
          /\ \A i \in DOMAIN users : i \in DOMAIN users' /\ users'[i].role = users[i].role]_vars

\* C12 witness: a register whose body carries "role": "admin" was answered 201
C12_Witness ==
    /\ resp.op = "register"
    /\ resp.status = StatusCreated
    /\ resp.req_role = "admin"
    /\ resp.user.id \in DOMAIN users

\* The routes of the authorized group, and a request to one of them
ProtectedOps == {"protected", "create", "update", "delete", "get", "list"}

ProtectedRequest ==
    \/ AuthMiddlewareAbort
    \/ ProtectedHandler
    \/ CreateTodoHandler
    \/ UpdateTodoHandler
    \/ DeleteTodoHandler
    \/ GetTodosHandler
    \/ GetTodoByIDHandler

MiddlewareErrors ==
    {"Authorization header required", "Invalid token format",
     "Invalid or expired token"}

C15_TokenRoundTrip ==
    [][(resp'.op \in ProtectedOps /\ ProtectedRequest)
       => LET tok == resp'.auth.tok
          IN  (/\ resp'.auth.bearer
               /\ tok = GenerateToken(tok.user_id, tok.email, tok.role, tok.iat)
               /\ now < tok.exp)
              => /\ ValidateToken(tok, now) =
                       [err |-> Nil,
                        claims |-> [user_id |-> tok.user_id, email |-> tok.email,
                                    role |-> tok.role]]
                 /\ AuthMiddleware(resp'.auth, now).ctx =
                       [user_id |-> tok.user_id, email |-> tok.email,
                        role |-> tok.role]
                 /\ resp'.status = StatusOK
                 /\ resp'.uid = tok.user_id
                 /\ resp'.role = tok.role
                 /\ (resp'.op = "protected") => (resp'.email = tok.email)]_vars

C15_Witness ==
    /\ resp.op = "protected"
    /\ resp.status = StatusOK
    /\ resp.auth.tok = GenerateToken(MaxUserID, "nobody@example.com", "", 1 - SessionTTL)
    /\ resp.uid = MaxUserID
    /\ resp.email = "nobody@example.com"
    /\ resp.role = ""

\* C16: a login issues its token with exp 24 hours after the time of issue;
\* on a protected route a token the server issued is accepted at every time
\* before its exp and refused, 401 "Invalid or expired token", at every time
\* after it
C16_SessionLifetime ==
    [][/\ (resp'.op = "login" /\ LoginHandler /\ resp'.status = StatusOK)
          => /\ resp'.token.iat = now
             /\ resp'.token.exp = now + SessionTTL
       /\ (resp'.op \in ProtectedOps /\ ProtectedRequest)
          => LET tok == resp'.auth.tok
             IN  (/\ resp'.auth.bearer
                  /\ tok = GenerateToken(tok.user_id, tok.email, tok.role, tok.iat))
                 => /\ tok.exp = tok.iat + SessionTTL
                    /\ (now < tok.exp)
                          => /\ resp'.status # StatusUnauthorized
                             /\ resp'.uid = tok.user_id
                    /\ (now > tok.exp)
                          => /\ resp'.status = StatusUnauthorized
                             /\ resp'.error = "Invalid or expired token"
                             /\ UNCHANGED <<users, todos, nextTodoID, resetTokens>>]_vars

C16_Witness ==
    /\ resp.op = "protected"
    /\ resp.status = StatusUnauthorized
    /\ resp.error = "Invalid or expired token"
    /\ resp.auth.tok.exp = resp.auth.tok.iat + SessionTTL
    /\ resp.auth.tok.key = JWTSecret
    /\ resp.auth.tok.exp < now

\* C17: nothing revokes a session token: a token a login issued is accepted
\* on a protected route at every time before its exp, with the claims it was
\* issued with, whatever forgot-password, reset-password and login requests
\* were served since, the reset of its own user's password included
C17_NoRevocation ==
    [][(resp'.op = "protected" /\ (AuthMiddlewareAbort \/ ProtectedHandler))
       => LET tok == resp'.auth.tok
          IN  (/\ resp'.auth.bearer
               /\ tok.iat >= 0
               /\ tok = GenerateToken(tok.user_id, tok.email, tok.role, tok.iat)
               /\ now < tok.exp)
              => /\ resp'.status = StatusOK
                 /\ resp'.message = "Access granted"
                 /\ resp'.uid = tok.user_id
                 /\ resp'.email = tok.email
                 /\ resp'.role = tok.role]_vars

C17_Witness ==
    /\ resp.op = "protected"
    /\ resp.status = StatusOK
    /\ resp.uid \in DOMAIN users
    /\ users[resp.uid].password_hash # SeedUsers[resp.uid].password_hash
    /\ resp.auth.tok.iat >= 0
    /\ resp.auth.tok.iat < users[resp.uid].updated_at

\* C18: a get of the id a create has just returned, by the creator, answers
\* 200 with the title and completed of the create's body, the id the server
\* assigned and the creator's user_id
C18_CreateGetRoundTrip ==
    [][(/\ resp'.op = "get"
        /\ resp.op = "create"
        /\ resp.status = StatusCreated
        /\ GetTodoByIDHandler
        /\ resp'.id = resp.todo.id
        /\ resp'.uid = resp.uid)
       => /\ resp'.status = StatusOK
          /\ resp'.todo.title = resp.req_title
          /\ resp'.todo.completed = resp.req_completed
          /\ resp'.todo.id = resp.todo.id
          /\ resp.todo.id = nextTodoID - 1
          /\ resp'.todo.user_id = resp.uid]_vars

C18_Witness ==
    /\ resp.op = "get"
    /\ resp.status = StatusOK
    /\ resp.id = nextTodoID - 1
    /\ resp.todo.title = "walk dog"
    /\ resp.todo.completed
    /\ resp.todo.user_id = resp.uid
    /\ resp.role = "user"

\* C19: a delete of a stored todo by its owner or an admin answers 204 and
\* removes the row; a delete of the same id directly after it answers 404 and
\* changes nothing, and so does a get of that id
C19_DeleteTwice ==
    [][/\ (/\ resp'.op = "delete"
           /\ DeleteTodoHandler
           /\ resp'.id \in DOMAIN todos
           /\ Allowed(todos[resp'.id], resp'.uid, resp'.role))
          => /\ resp'.status = StatusNoContent
             /\ resp'.id \notin DOMAIN todos'
       /\ (/\ resp'.op = "delete"
           /\ resp.op = "delete"
           /\ resp.status = StatusNoContent
           /\ DeleteTodoHandler
           /\ resp'.id = resp.id)
          => /\ resp'.status = StatusNotFound
             /\ resp'.error = "Todo not found"
             /\ todos' = todos
       /\ (/\ resp'.op = "get"
           /\ resp.op = "delete"
           /\ resp.status = StatusNoContent
           /\ GetTodoByIDHandler
           /\ resp'.id = resp.id)
          => /\ resp'.status = StatusNotFound
             /\ resp'.error = "Todo not found"]_vars

C19_Witness ==
    /\ resp.op = "delete"
    /\ resp.status = StatusNotFound
    /\ resp.id >= 1
    /\ resp.id < nextTodoID
    /\ resp.id \notin DOMAIN todos

C21_MarkUsedBestEffort ==
    [][\A i \in Procs :
          /\ (procs[i].pc = "update" /\ procs'[i].pc = "mark")
             => users'[procs[i].row.user_id].password_hash = procs[i].hash
          /\ (procs[i].pc = "mark" /\ procs'[i].pc = "done" /\ procs'[i].fault)
             => /\ procs'[i].status = StatusOK
                /\ procs'[i].error = ""
                /\ users' = users
                /\ resetTokens' = resetTokens]_vars

C21_Witness ==
    \E i \in Procs :
        /\ procs[i].op = "reset"
        /\ procs[i].pc = "done"
        /\ procs[i].fault
        /\ procs[i].status = StatusOK
        /\ users[procs[i].row.user_id].password_hash = procs[i].hash
        /\ VerifyPassword(users[procs[i].row.user_id].password_hash,
                          procs[i].password) = Nil
        /\ FindByToken(resetTokens, procs[i].reset).row.used_at = NULL

\* C22: a well-formed forgot-password request for the email of a user adds
\* exactly one row, for that user and unused, and leaves every other row as
\* it was; and a reset with a token that is unused and not past its
\* expires_at succeeds also when tokens were issued to the same user after it
C22_OlderTokensStayValid ==
    [][/\ (/\ resp'.op = "forgot"
           /\ ForgotPasswordHandler
           /\ BindForgotOK(resp'.email)
           /\ FindByEmail(users, resp'.email).err = Nil)
          => /\ Cardinality(DOMAIN resetTokens' \ DOMAIN resetTokens) = 1
             /\ \A i \in DOMAIN resetTokens' \ DOMAIN resetTokens :
                   /\ resetTokens'[i].user_id = FindByEmail(users, resp'.email).user.id
                   /\ resetTokens'[i].used_at = NULL
                   /\ \A j \in DOMAIN resetTokens :
                         resetTokens[j].token # resetTokens'[i].token
             /\ \A j \in DOMAIN resetTokens :
                   j \in DOMAIN resetTokens' /\ resetTokens'[j] = resetTokens[j]
       /\ (/\ resp'.op = "reset"
           /\ ResetPasswordHandler
           /\ BindResetOK(resp'.password))
          => LET f == FindByToken(resetTokens, resp'.reset)
             IN  (/\ f.err = Nil
                  /\ f.row.used_at = NULL
                  /\ now <= f.row.expires_at
                  /\ \E j \in DOMAIN resetTokens :
                        j > f.row.id /\ resetTokens[j].user_id = f.row.user_id)
                 => /\ resp'.status = StatusOK
                    /\ VerifyPassword(users'[f.row.user_id].password_hash,
                                      resp'.password) = Nil]_vars

C22_Witness ==
    /\ resp.op = "reset"
    /\ resp.status = StatusOK
    /\ FindByToken(resetTokens, resp.reset).row.id = 1
    /\ 2 \in DOMAIN resetTokens
    /\ resetTokens[2].user_id = resetTokens[1].user_id
    /\ resetTokens[2].used_at = NULL
    /\ resetTokens[2].expires_at - ResetTokenTTL < resetTokens[1].used_at

\* C23: of the register requests in flight together with the same email at
\* most one creates a user, and each of the others that reaches the INSERT
\* is answered 409 "Username or email already exists"; the INSERT of a
\* request whose email is stored changes nothing; emails stay unique
C23_ConcurrentRegister ==
    [][/\ \A i, j \in Procs :
             (/\ i # j
              /\ procs'[i].op = "register" /\ procs'[j].op = "register"
              /\ procs'[i].pc = "done" /\ procs'[j].pc = "done"
              /\ procs'[i].email = procs'[j].email
              /\ procs'[i].status = StatusCreated)
             => /\ procs'[j].status \in {StatusConflict, StatusBadRequest}
                /\ (procs'[j].status = StatusConflict)
                      => procs'[j].error = "Username or email already exists"
       /\ \A i \in Procs :
             (/\ procs[i].pc = "insert" /\ procs'[i].pc = "done"
              /\ \E k \in DOMAIN users : users[k].email = procs[i].email)
             => /\ procs'[i].status = StatusConflict
                /\ users' = users
       /\ \A i \in Procs :
             (procs[i].pc = "insert" /\ procs'[i].pc = "done"
              /\ procs'[i].status = StatusCreated)
             => /\ Cardinality(DOMAIN users') = Cardinality(DOMAIN users) + 1
                /\ users'[procs'[i].id].email = procs[i].email
       /\ \A k, l \in DOMAIN users' :
             (k # l) => (users'[k].email # users'[l].email)]_vars

C23_Witness ==
    \E i, j \in Procs :
        /\ procs[i].op = "register" /\ procs[j].op = "register"
        /\ procs[i].pc = "done" /\ procs[j].pc = "done"
        /\ procs[i].email = procs[j].email
        /\ procs[i].username # procs[j].username
        /\ procs[i].status = StatusCreated
        /\ procs[j].status = StatusConflict
        /\ procs[j].raced

\* C24: a get, update or delete that passes the parsing of its id and body
\* and names an id no todo has is answered 404 "Todo not found", for a user
\* as for an admin, and leaves every table as it was
C24_MissingTodoNotFound ==
    [][(/\ resp'.op \in {"get", "update", "delete"}
        /\ resp'.status # StatusBadRequest
        /\ resp'.id \notin DOMAIN todos
        /\ (GetTodoByIDHandler \/ UpdateTodoHandler \/ DeleteTodoHandler))
       => /\ resp'.status = StatusNotFound
          /\ resp'.error = "Todo not found"
          /\ resp'.todo = NoTodo
          /\ UNCHANGED <<users, todos, nextTodoID, resetTokens>>]_vars

C24_Witness ==
    /\ resp.op = "delete"
    /\ resp.status = StatusNotFound
    /\ resp.role = "user"
    /\ resp.id >= nextTodoID
    /\ DOMAIN todos # {}

\* C25: no request removes a row of users or changes its id, username, email
\* or role; a row changes only in a reset-password request answered 200, and
\* then it is the row of the user the token was issued to, and only its
\* password_hash and updated_at change
C25_UsersFrame ==
    [][\A i \in DOMAIN users :
          /\ i \in DOMAIN users'
          /\ users'[i].id = users[i].id
          /\ users'[i].username = users[i].username
          /\ users'[i].email = users[i].email
          /\ users'[i].role = users[i].role
          /\ (users'[i] # users[i])
             => /\ resp'.op = "reset"
                /\ resp'.status = StatusOK
                /\ FindByToken(resetTokens, resp'.reset).row.user_id = i
                /\ users'[i] = [users[i] EXCEPT
                                   !.password_hash = users'[i].password_hash,
                                   !.updated_at = now]]_vars

C25_Witness ==
    /\ resp.op = "reset"
    /\ resp.status = StatusOK
    /\ 3 \in DOMAIN users
    /\ \E i \in DOMAIN SeedUsers :
          /\ FindByToken(resetTokens, resp.reset).row.user_id = i
          /\ users[i].password_hash # SeedUsers[i].password_hash
          /\ \A j \in DOMAIN SeedUsers \ {i} : users[j] = SeedUsers[j]

\* C26, as stated: of two reset requests with the same token that both read
\* it unused and unexpired, served with no failure of the database, at most
\* one is answered 200 and changes the password, and the other is refused
\* with "token already used"
C26_AtMostOneConcurrentReset ==
    \A i, j \in Procs :
        (/\ i # j
         /\ procs[i].op = "reset" /\ procs[j].op = "reset"
         /\ procs[i].pc = "done" /\ procs[j].pc = "done"
         /\ procs[i].reset = procs[j].reset
         /\ procs[i].row.id # 0 /\ procs[j].row.id # 0
         /\ ~procs[i].fault /\ ~procs[j].fault
         /\ procs[j].error # "failed to update password: driver: bad connection"
         /\ procs[i].status = StatusOK)
        => /\ procs[j].status = StatusBadRequest
           /\ procs[j].error = "token already used"

\* C27, as stated: an update is answered with ErrTodoNotFound (404) only when
\* no todo with the requested id exists; an update of an existing todo that
\* repeats the stored title and completed value succeeds
C27_UpdateNotFoundOnlyWhenMissing ==
    (resp.op = "update" /\ resp.status = StatusNotFound) => resp.owner = 0

\* C28: a successful reset stores for the token's user a hash that the new
\* password verifies and no other password does, and leaves the other users'
\* hashes alone; no other request changes a stored hash; and a well-formed
\* login with a user's email is answered 200 exactly when the password
\* verifies the stored hash.  So from a successful reset until the next one
\* for that user, a login with the new password succeeds and a login with
\* the previous password, when it differs, fails.
C28_LoginAfterReset ==
    [][/\ (resp'.op = "reset" /\ resp'.status = StatusOK /\ ResetPasswordHandler)
          => LET owner == FindByToken(resetTokens, resp'.reset).row.user_id
             IN  /\ owner \in DOMAIN users'
                 /\ \A q \in Passwords :
                       (VerifyPassword(users'[owner].password_hash, q) = Nil)
                       <=> (q = resp'.password)
                 /\ \A u \in DOMAIN users \ {owner} :
                       users'[u].password_hash = users[u].password_hash
       /\ ~(resp'.op = "reset" /\ resp'.status = StatusOK /\ ResetPasswordHandler)
          => \A u \in DOMAIN users :
                users'[u].password_hash = users[u].password_hash
       /\ (resp'.op = "login" /\ LoginHandler
              /\ BindLoginOK(resp'.email, resp'.password))
          => \A u \in DOMAIN users :
                users[u].email = resp'.email
                => ((resp'.status = StatusOK /\ resp'.uid = u)
                    <=> VerifyPassword(users[u].password_hash, resp'.password) = Nil)]_vars

\* C28 witness: after a reset gave a user a password other than the seeded
\* one, a login with the new password was answered 200
C28_Witness ==
    /\ resp.op = "login"
    /\ resp.status = StatusOK
    /\ resp.uid \in DOMAIN users
    /\ users[resp.uid].password_hash[3] # SeedUsers[resp.uid].password_hash[3]
    /\ users[resp.uid].password_hash[3] = resp.password

\* C29: when a delete request that read the row and passed the ownership rule
\* is finished, the row is gone and exactly one finished delete of that id
\* was answered 204; every other finished delete of that id by a requester
\* the rule admits was answered 404 "Todo not found", none 500.  Of two such
\* requests served at the same time, one gets 204 and the other 404.
C29_ConcurrentDelete ==
    \A i \in Procs :
        (/\ procs[i].op = "delete" /\ procs[i].pc = "done"
         /\ procs[i].owner # 0
         /\ procs[i].owner = procs[i].uid \/ procs[i].role = "admin")
        => /\ procs[i].id \notin DOMAIN todos
           /\ procs[i].status \in {StatusNoContent, StatusNotFound}
           /\ Cardinality({k \in Procs :
                               /\ procs[k].op = "delete" /\ procs[k].pc = "done"
                               /\ procs[k].id = procs[i].id
                               /\ procs[k].status = StatusNoContent}) = 1
           /\ \A j \in Procs \ {i} :
                 (/\ procs[j].op = "delete" /\ procs[j].pc = "done"
                  /\ procs[j].id = procs[i].id
                  /\ procs[j].owner \in {0, procs[j].uid} \/ procs[j].role = "admin")
                 => /\ procs[j].status \in {StatusNoContent, StatusNotFound}
                    /\ procs[j].status = StatusNotFound
                       => procs[j].error = "Todo not found"
                    /\ procs[i].status = StatusNoContent
                       => procs[j].status = StatusNotFound

\* C29 witness: two requests both found the row and passed the ownership
\* rule; one DELETE removed it and the other, which affected no row, was
\* answered 404
C29_Witness ==
    \E i, j \in Procs :
        /\ i # j
        /\ procs[i].op = "delete" /\ procs[j].op = "delete"
        /\ procs[i].pc = "done" /\ procs[j].pc = "done"
        /\ procs[i].id = procs[j].id
        /\ procs[i].status = StatusNoContent
        /\ procs[j].raced
        /\ procs[j].owner # 0
        /\ procs[j].status = StatusNotFound
        /\ procs[j].error = "Todo not found"

\* C30: a reset request that is answered 400 (body refused, token not found,
\* expired, already used, or UpdatePassword failing or affecting no row) is
\* answered before it has written anything: the step that answers it leaves
\* every user's hash and every token row as they were, and it comes straight
\* from the read or from the failed UPDATE, never after a write of its own.
\* So a token that was unused before the failed request is unused after it.
C30_FailedResetChangesNothing ==
    [][\A i \in Procs :
          (/\ procs'[i].op = "reset"
           /\ procs[i].pc # "done" /\ procs'[i].pc = "done"
           /\ procs'[i].status = StatusBadRequest)
          => /\ procs[i].pc \in {"idle", "update"}
             /\ procs'[i].error \in
                   {"Invalid request payload", "invalid or expired token",
                    "token expired", "token already used",
                    "failed to update password: no rows affected",
                    "failed to update password: driver: bad connection"}
             /\ \A u \in DOMAIN users :
                   /\ u \in DOMAIN users'
                   /\ users'[u].password_hash = users[u].password_hash
             /\ resetTokens' = resetTokens]_vars

\* C30 witness: a reset failed at UpdatePassword with a token it had read
\* unused; the token was tried again, and that reset was answered 200 and
\* marked it used
C30_Witness ==
    \E i, j \in Procs :
        /\ i # j
        /\ procs[i].op = "reset" /\ procs[j].op = "reset"
        /\ procs[i].pc = "done" /\ procs[j].pc = "done"
        /\ procs[i].reset = procs[j].reset
        /\ procs[i].row.id # 0
        /\ procs[i].status = StatusBadRequest
        /\ procs[i].error = "failed to update password: driver: bad connection"
        /\ procs[j].status = StatusOK
        /\ ~procs[j].fault
        /\ users[procs[j].row.user_id].password_hash = procs[j].hash
        /\ FindByToken(resetTokens, procs[j].reset).row.used_at # NULL

============================================================================
